---- MODULE Spec2Model ----
(***************************************************************************)
(* Model of the Gemini relay handlers of CurriottHill/NodeServer:          *)
(*   src/api/gemini.js         single routed handler with the in-memory    *)
(*                             sliding-window limiter                      *)
(*   src/api/gemini/stream.js  stand-alone SSE relay handler               *)
(*   src/api/gemini/index.js   stand-alone text handler and, from line 48, *)
(*                             the stand-alone stream/silent handler       *)
(*   src/api/gemini/silent.js  stand-alone silent handler                  *)
(* Text is a sequence of tokens: "NL" is "\n", "CR" is "\r", "DATA" is the *)
(* prefix "data:", "EVENT" is the prefix "event:", "CMT" is ":", "JA" is a  *)
(* complete JSON payload, "JH" and "JT" are the two halves of another JSON *)
(* payload, "JN" is a JSON value without candidates.                       *)
(***************************************************************************)
EXTENDS Integers, Sequences, FiniteSets, TLC

VARIABLES
  now,           \* Date.now(), in ms
  ticks,         \* number of clock advances so far
  requestTimes,  \* gemini.js:85
  limitReached,  \* gemini.js:86
  admitLog,      \* history: every instant at which geminiRateLimiter returned true
  lastAdmit,     \* result of the geminiRateLimiter call just made, if any
  lastStatus,    \* body of the GET limit response just sent, if any
  shadow,        \* history: a limiter given the same geminiRateLimiter calls
                 \* and no GET limit query, and the result of its latest call
  file,          \* which handler serves the current request
  route,         \* the current request: method, subpath, length of the prompt
                 \* (-1 when it is absent or not a string), whether a key is set
  pc,            \* position of the current request's handler
  gate,          \* what the limiter answered for the current request
  upstreamCalls, \* number of fetch calls issued for the current request
  upstream,      \* the upstream response: ok, status, shape of its body
  hasFlush,      \* whether res.flushHeaders exists in this runtime
  res,           \* the response object of the current request
  hb,            \* the heartbeat interval: "none", "armed", "cleared"
  nChunks,       \* chunks delivered by the upstream so far
  term,          \* how the upstream body terminated: "none", "end", "error"
  pings,         \* heartbeat ticks fired so far
  gone,          \* the caller has disconnected
  late,          \* history: what the session did after the caller disconnected
  buffer,        \* handleText's buffer
  text,          \* the upstream text: what a session has received so far,
                 \* the whole text to be fed in SpecFrames
  pos,           \* how much of text has been fed
  lastCut,       \* where the latest chunk of text began (SpecFrames)
  frags,         \* fragments extracted so far
  eos,           \* the end-of-stream step is done (SpecFrames)
  lines          \* the lines of the frame given to the extractor (SpecExtract)

limiterVars == <<now, ticks, requestTimes, limitReached, admitLog, lastAdmit,
                 lastStatus, shadow>>
requestVars == <<file, route, pc, gate, upstreamCalls, upstream, hasFlush,
                 res, hb, nChunks, term, pings, gone, late>>
frameVars == <<text, pos, lastCut, frags, eos, lines>>
vars == <<limiterVars, requestVars, buffer, frameVars>>

----------------------------------------------------------------------------
(* Bounds of the model *)

MaxTextLen == 4
MaxTicks == 3
MaxChunks == 2
MaxPings == 2
MaxLines == 3

----------------------------------------------------------------------------
(* Text: String.prototype.trim / indexOf / split and JSON.parse *)

Token == {"NL", "CR", "DATA", "EVENT", "CMT", "JA", "JH", "JT", "JN"}
Whitespace == {"NL", "CR"}

RECURSIVE TrimLeft(_)
TrimLeft(s) ==
  IF s = <<>> THEN <<>>
  ELSE IF Head(s) \in Whitespace THEN TrimLeft(Tail(s)) ELSE s

RECURSIVE TrimRight(_)
TrimRight(s) ==
  IF s = <<>> THEN <<>>
  ELSE IF s[Len(s)] \in Whitespace THEN TrimRight(SubSeq(s, 1, Len(s) - 1)) ELSE s

Trim(s) == TrimRight(TrimLeft(s))

\* buffer.indexOf('\n'), 1-based; 0 when absent
RECURSIVE IndexOfNL(_, _)
IndexOfNL(s, i) ==
  IF i > Len(s) THEN 0
  ELSE IF s[i] = "NL" THEN i ELSE IndexOfNL(s, i + 1)

\* buffer.indexOf('\n\n'), 1-based; 0 when absent
RECURSIVE IndexOfNLNL(_, _)
IndexOfNLNL(s, i) ==
  IF i + 1 > Len(s) THEN 0
  ELSE IF s[i] = "NL" /\ s[i + 1] = "NL" THEN i ELSE IndexOfNLNL(s, i + 1)

\* frame.split(/\r?\n/)
RECURSIVE SplitLines(_)
SplitLines(s) ==
  LET i == IndexOfNL(s, 1) IN
  IF i = 0 THEN <<s>>
  ELSE LET cut == IF i > 1 /\ s[i - 1] = "CR" THEN i - 2 ELSE i - 1
       IN <<SubSeq(s, 1, cut)>> \o SplitLines(SubSeq(s, i + 1, Len(s)))

RECURSIVE StripWhitespace(_)
StripWhitespace(s) ==
  IF s = <<>> THEN <<>>
  ELSE IF Head(s) \in Whitespace THEN StripWhitespace(Tail(s))
       ELSE <<Head(s)>> \o StripWhitespace(Tail(s))

\* The parsed objects: a sequence of candidates, each the sequence of the
\* text fields of its content.parts ("" for a part without text).
ObjA == << <<"a">> >>
ObjB == << <<"b", "">>, <<"c">> >>

\* JSON.parse(line): [ok, obj]; whitespace between JSON tokens is insignificant
JsonParse(line) ==
  LET s == StripWhitespace(line) IN
  IF s = <<"JA">> THEN [ok |-> TRUE, obj |-> ObjA]
  ELSE IF s = <<"JH", "JT">> THEN [ok |-> TRUE, obj |-> ObjB]
  ELSE IF s = <<"JN">> THEN [ok |-> TRUE, obj |-> <<>>]
  ELSE [ok |-> FALSE, obj |-> <<>>]

RECURSIVE PartsTexts(_)
PartsTexts(parts) ==
  IF parts = <<>> THEN <<>>
  ELSE (IF Head(parts) # "" THEN <<Head(parts)>> ELSE <<>>) \o PartsTexts(Tail(parts))

\* emitTextsFromObj: the texts written, in order
RECURSIVE emitTextsFromObj(_)
emitTextsFromObj(obj) ==
  IF obj = <<>> THEN <<>>
  ELSE PartsTexts(Head(obj)) \o emitTextsFromObj(Tail(obj))

\* The body of both per-line loops of handleText
ProcessLine(rawLine) ==
  LET line == Trim(rawLine) IN
  IF line = <<>> \/ Head(line) = "CMT" \/ Head(line) = "EVENT" THEN <<>>
  ELSE LET line2 == IF Head(line) = "DATA" THEN Trim(Tail(line)) ELSE line IN
       IF line2 = <<>> THEN <<>>
       ELSE LET p == JsonParse(line2) IN
            IF p.ok THEN emitTextsFromObj(p.obj) ELSE <<>>

\* The line loop giving up at the first line that yields nothing
RECURSIVE ProcessLinesUntilSkip(_)
ProcessLinesUntilSkip(ls) ==
  IF ls = <<>> \/ ProcessLine(Head(ls)) = <<>> THEN <<>>
  ELSE ProcessLine(Head(ls)) \o ProcessLinesUntilSkip(Tail(ls))

\* for (const rawLine of frame.split(/\r?\n/)) { ... }
RECURSIVE ProcessLines(_)
ProcessLines(ls) ==
  IF ls = <<>> THEN <<>>
  ELSE ProcessLine(Head(ls)) \o ProcessLines(Tail(ls))

\* The first loop of handleText: frames delimited by "\n\n"
RECURSIVE ScanFrames(_)
ScanFrames(buf) ==
  LET frameIdx == IndexOfNLNL(buf, 1) IN
  IF frameIdx = 0 THEN [buf |-> buf, frags |-> <<>>]
  ELSE LET frame == SubSeq(buf, 1, frameIdx - 1)
           rest == ScanFrames(SubSeq(buf, frameIdx + 2, Len(buf)))
       IN [buf |-> rest.buf,
           frags |-> ProcessLines(SplitLines(frame)) \o rest.frags]

\* The second loop of handleText: lines delimited by "\n"
RECURSIVE ScanLines(_)
ScanLines(buf) ==
  LET idx == IndexOfNL(buf, 1) IN
  IF idx = 0 THEN [buf |-> buf, frags |-> <<>>]
  ELSE LET line0 == SubSeq(buf, 1, idx - 1)
           rest == ScanLines(SubSeq(buf, idx + 1, Len(buf)))
       IN [buf |-> rest.buf, frags |-> ProcessLine(line0) \o rest.frags]

\* handleText scanning each chunk on its own, whatever was left buffered
handleTextUnbuffered(buf, textChunk) ==
  LET a == ScanFrames(textChunk)
      b == ScanLines(a.buf)
  IN [buf |-> b.buf, frags |-> a.frags \o b.frags]

\* handleText with the second loop scanning the text the first loop was given
handleTextOverlapping(buf, textChunk) ==
  LET a == ScanFrames(buf \o textChunk)
      b == ScanLines(buf \o textChunk)
  IN [buf |-> b.buf, frags |-> a.frags \o b.frags]

\* handleText(textChunk) on buffer buf: the new buffer and the texts emitted
handleText(buf, textChunk) ==
  LET a == ScanFrames(buf \o textChunk)
      b == ScanLines(a.buf)
  IN [buf |-> b.buf, frags |-> a.frags \o b.frags]

\* The end-of-stream step leaving the buffer as it is
flushTailSkipped(buf) == [buf |-> buf, frags |-> <<>>]

\* if (buffer.trim()) handleText('\n')
flushTail(buf) ==
  IF Trim(buf) # <<>> THEN handleText(buf, <<"NL">>)
  ELSE [buf |-> buf, frags |-> <<>>]

----------------------------------------------------------------------------
(* The frame reassembler on its own: one text, fed in arbitrary chunks *)

RECURSIVE SeqsUpTo(_, _)
SeqsUpTo(S, n) ==
  IF n = 0 THEN {<<>>}
  ELSE LET shorter == SeqsUpTo(S, n - 1)
       IN shorter \cup {Append(s, x) : s \in {t \in shorter : Len(t) = n - 1}, x \in S}

\* One text as a single chunk, then the end-of-stream step
WholeText(t) ==
  LET a == handleText(<<>>, t)
      b == flushTail(a.buf)
  IN [buf |-> b.buf, frags |-> a.frags \o b.frags]

\* A chunk of k tokens arrives: handleText(chunk)
Feed(k) ==
  /\ ~eos
  /\ pos + k <= Len(text)
  /\ LET r == handleText(buffer, SubSeq(text, pos + 1, pos + k))
     IN /\ buffer' = r.buf
        /\ frags' = frags \o r.frags
  /\ pos' = pos + k
  /\ lastCut' = pos
  /\ UNCHANGED <<text, eos, lines, limiterVars, requestVars>>

\* The adapter reports the end: if (buffer.trim()) handleText('\n')
EndOfText ==
  /\ ~eos
  /\ pos = Len(text)
  /\ LET r == flushTail(buffer)
     IN /\ buffer' = r.buf
        /\ frags' = frags \o r.frags
  /\ eos' = TRUE
  /\ UNCHANGED <<text, pos, lastCut, lines, limiterVars, requestVars>>

----------------------------------------------------------------------------
(* The payload extractor on its own: one frame of lines through handleText *)

\* The lines a frame is made of
LineShapes ==
  {<<>>, <<"CR">>, <<"CMT">>, <<"CMT", "JA">>, <<"EVENT">>, <<"EVENT", "JA">>,
   <<"DATA">>, <<"DATA", "JA">>, <<"JA">>, <<"CR", "DATA", "CR", "JA">>,
   <<"DATA", "JH", "JT">>, <<"DATA", "JH">>, <<"JT">>, <<"DATA", "JN">>,
   <<"DATA", "JA", "JA">>}

\* How the upstream ends its lines and its frames
LineEndings == {"lf", "crlf", "mixed"}

\* The text of a frame: every line with its ending, then the blank line
RECURSIVE JoinLines(_, _)
JoinLines(ls, ending) ==
  IF ls = <<>> THEN IF ending = "crlf" THEN <<"CR", "NL">> ELSE <<"NL">>
  ELSE Head(ls) \o (IF ending = "lf" THEN <<"NL">> ELSE <<"CR", "NL">>)
       \o JoinLines(Tail(ls), ending)

\* The frame arrives in one chunk: handleText(frame)
ExtractFrame(ending) ==
  /\ ~eos
  /\ pos = 0
  /\ LET t == JoinLines(lines, ending)
         r == handleText(<<>>, t)
     IN /\ text' = t
        /\ pos' = Len(t)
        /\ buffer' = r.buf
        /\ frags' = r.frags
  /\ eos' = TRUE
  /\ UNCHANGED <<lastCut, lines, limiterVars, requestVars>>

----------------------------------------------------------------------------
(* The sliding-window limiter, gemini.js:83-95, and GET limit, :115-133 *)

WINDOW_MS == 60000
MAX_REQ == 10

\* What the clock may advance by between two calls
ClockSteps == {1, WINDOW_MS - 1}

\* The filter keeping an entry exactly WINDOW_MS old: <= instead of <
PruneInclusive(times, t) == SelectSeq(times, LAMBDA x : t - x <= WINDOW_MS)

\* requestTimes.filter(t => now - t < WINDOW_MS)
Prune(times, t) == SelectSeq(times, LAMBDA x : t - x < WINDOW_MS)

\* The limit test off by one: > instead of >=
ReachedOffByOne(times) == Len(times) > MAX_REQ

\* requestTimes.length >= MAX_REQ
Reached(times) == Len(times) >= MAX_REQ

\* The limiter recording the call before it tests the limit
RateLimiterPushFirst(times, t) ==
  LET kept == Prune(times, t)
      reached == Reached(kept)
  IN [times |-> Append(kept, t),
      limitReached |-> reached,
      ok |-> ~reached]

\* The limiter testing the filtered list but keeping the unfiltered one
RateLimiterNoPrune(times, t) ==
  LET kept == Prune(times, t)
      reached == Reached(kept)
  IN [times |-> IF reached THEN times ELSE Append(times, t),
      limitReached |-> reached,
      ok |-> ~reached]

\* geminiRateLimiter() at instant t: the new requestTimes and the result
RateLimiter(times, t) ==
  LET kept == Prune(times, t)
      reached == Reached(kept)
  IN [times |-> IF reached THEN kept ELSE Append(kept, t),
      limitReached |-> reached,
      ok |-> ~reached]

\* The seconds rounded down: Math.floor(ms / 1000)
FloorSeconds(ms) == ms \div 1000

\* Math.ceil(ms / 1000) for ms >= 0
CeilSeconds(ms) == (ms + 999) \div 1000

Max(a, b) == IF a >= b THEN a ELSE b

\* The GET limit block counting the query as a request
LimitStatusCounting(times, t) ==
  LET kept == Prune(times, t)
      reached == Reached(kept)
  IN [times |-> IF reached THEN kept ELSE Append(kept, t),
      limitReached |-> reached,
      body |-> [limit |-> IF reached THEN 1 ELSE 0,
                remaining |-> Max(0, MAX_REQ - Len(kept)),
                windowMs |-> WINDOW_MS,
                secondsRemaining |-> 0]]

\* The GET limit block testing the limit on the entries as they were left,
\* expired ones included
LimitStatusUnpruned(times, t) ==
  LET kept == Prune(times, t)
      reached == Reached(times)
      msRemaining == IF reached /\ Len(times) > 0
                     THEN Max(0, WINDOW_MS - (t - times[1])) ELSE 0
  IN [times |-> kept,
      limitReached |-> reached,
      body |-> [limit |-> IF reached THEN 1 ELSE 0,
                remaining |-> Max(0, MAX_REQ - Len(times)),
                windowMs |-> WINDOW_MS,
                secondsRemaining |-> CeilSeconds(msRemaining)]]

\* The GET limit block keeping one slot back in the remaining it reports
LimitStatusOneLess(times, t) ==
  LET kept == Prune(times, t)
      reached == Reached(kept)
      msRemaining == IF reached /\ Len(kept) > 0
                     THEN Max(0, WINDOW_MS - (t - kept[1])) ELSE 0
  IN [times |-> kept,
      limitReached |-> reached,
      body |-> [limit |-> IF reached THEN 1 ELSE 0,
                remaining |-> Max(0, MAX_REQ - Len(kept) - 1),
                windowMs |-> WINDOW_MS,
                secondsRemaining |-> CeilSeconds(msRemaining)]]

\* The GET limit block at instant t: the pruned requestTimes and the JSON body
LimitStatus(times, t) ==
  LET kept == Prune(times, t)
      reached == Reached(kept)
      msRemaining == IF reached /\ Len(kept) > 0
                     THEN Max(0, WINDOW_MS - (t - kept[1])) ELSE 0
  IN [times |-> kept,
      limitReached |-> reached,
      body |-> [limit |-> IF reached THEN 1 ELSE 0,
                remaining |-> Max(0, MAX_REQ - Len(kept)),
                windowMs |-> WINDOW_MS,
                secondsRemaining |-> CeilSeconds(msRemaining)]]

NoStatus == [limit |-> -1, remaining |-> -1, windowMs |-> -1, secondsRemaining |-> -1]

\* The shadow limiter takes a call of geminiRateLimiter at instant t
ShadowCall(sh, t) ==
  LET r == RateLimiter(sh.times, t)
  IN [times |-> r.times, ok |-> IF r.ok THEN "true" ELSE "false"]

\* The shadow limiter is not called
ShadowIdle(sh) == [sh EXCEPT !.ok = "none"]

\* Time passes between two calls
Advance(d) ==
  /\ ticks < MaxTicks
  /\ now' = now + d
  /\ ticks' = ticks + 1
  /\ lastAdmit' = "none"
  /\ lastStatus' = NoStatus
  /\ shadow' = ShadowIdle(shadow)
  /\ UNCHANGED <<requestTimes, limitReached, admitLog>>

Tick ==
  /\ \E d \in ClockSteps : Advance(d)
  /\ UNCHANGED <<requestVars, buffer, frameVars>>

\* One call of geminiRateLimiter()
Admit ==
  /\ LET r == RateLimiter(requestTimes, now)
     IN /\ requestTimes' = r.times
        /\ limitReached' = r.limitReached
        /\ lastAdmit' = IF r.ok THEN "true" ELSE "false"
        /\ admitLog' = IF r.ok THEN Append(admitLog, now) ELSE admitLog
  /\ lastStatus' = NoStatus
  /\ shadow' = ShadowCall(shadow, now)
  /\ UNCHANGED <<now, ticks, requestVars, buffer, frameVars>>

\* One evaluation of the GET limit block
StatusQuery ==
  /\ LET r == LimitStatus(requestTimes, now)
     IN /\ requestTimes' = r.times
        /\ limitReached' = r.limitReached
        /\ lastStatus' = r.body
  /\ lastAdmit' = "none"
  /\ shadow' = ShadowIdle(shadow)
  /\ UNCHANGED <<now, ticks, admitLog, requestVars, buffer, frameVars>>

----------------------------------------------------------------------------
(* The response object: http.ServerResponse as the handlers use it *)

SSE == "text/event-stream"

NewRes == [headersSent |-> FALSE, contentType |-> "", sseSent |-> FALSE,
           statusCode |-> 0, sentStatus |-> 0, ended |-> 0, out |-> <<>>]

Ev(k, v) == [k |-> k, v |-> v]

NoRoute == [method |-> "", subpath |-> "", prompt |-> -1, key |-> FALSE]
NoUpstream == [ok |-> FALSE, json |-> FALSE, status |-> 0, shape |-> "none"]

\* The status line and the headers go out with the first flush, write or end
SendHeaders(r) ==
  IF r.headersSent THEN r
  ELSE [r EXCEPT !.headersSent = TRUE,
                 !.sseSent = (r.contentType = SSE),
                 !.sentStatus = IF r.statusCode = 0 THEN 200 ELSE r.statusCode]

\* res.flushHeaders?.()
FlushHeaders(r, has) == IF has THEN SendHeaders(r) ELSE r

\* res.write(ev): recorded as issued, also on an ended response
ResWrite(r, ev) == [SendHeaders(r) EXCEPT !.out = Append(r.out, ev)]

\* The fragments of one payload written last first
RECURSIVE ResWriteAllReversed(_, _, _)
ResWriteAllReversed(r, k, vs) ==
  IF vs = <<>> THEN r
  ELSE ResWrite(ResWriteAllReversed(r, k, Tail(vs)), Ev(k, Head(vs)))

\* emitTextsFromObj's res.write per fragment, in the order of the fragments
RECURSIVE ResWriteAll(_, _, _)
ResWriteAll(r, k, vs) ==
  IF vs = <<>> THEN r ELSE ResWriteAll(ResWrite(r, Ev(k, Head(vs))), k, Tail(vs))

\* res.status(code)
ResStatus(r, code) == [r EXCEPT !.statusCode = code]

\* res.end()
ResEnd(r) ==
  [SendHeaders(r) EXCEPT !.out = Append(r.out, Ev("end", "")),
                         !.ended = r.ended + 1]

\* res.json(body) on a response whose headers are not sent yet (it throws
\* ERR_HTTP_HEADERS_SENT otherwise, when it sets Content-Type)
ResJson(r, v) ==
  LET h == SendHeaders([r EXCEPT !.contentType = "application/json"])
  IN [h EXCEPT !.out = Append(r.out, Ev("json", v)), !.ended = r.ended + 1]

----------------------------------------------------------------------------
(* The handlers up to their upstream call *)

Gemini == "gemini.js"
StreamJs == "gemini/stream.js"
IndexJs == "gemini/index.js"
SilentJs == "gemini/silent.js"
StreamSilentJs == "gemini/index.js:48"

Files == {Gemini, StreamJs, IndexJs, SilentJs, StreamSilentJs}
Methods == {"OPTIONS", "GET", "POST"}
Subpaths == {"", "silent", "stream", "stream/silent", "limit", "other"}
INPUT_TOKEN_LIMIT == 50000
APPROX_CHARS_PER_TOKEN == 4

\* Math.max(0, Math.floor(INPUT_TOKEN_LIMIT * APPROX_CHARS_PER_TOKEN))
maxChars == Max(0, INPUT_TOKEN_LIMIT * APPROX_CHARS_PER_TOKEN)

\* The prompts of a request, by length: absent or not a string, '', one
\* character, and the lengths around maxChars
Prompts == {-1, 0, 1, maxChars, maxChars + 1}

\* !prompt || typeof prompt !== 'string'
MissingPrompt(pr) == pr <= 0

\* s.length > maxChars
TooLong(pr) == pr > maxChars

\* The route a standalone handler file serves
ServedBy(f) ==
  CASE f = StreamJs -> "stream"
    [] f = IndexJs -> ""
    [] f = SilentJs -> "silent"
    [] f = StreamSilentJs -> "stream/silent"
    [] OTHER -> ""

\* Whether the handler answers errors with res.json (else with res.end)
AnswersJson(f) == f \in {StreamJs, IndexJs}

\* catch (e) of the stream route, gemini.js:301-308
StreamCatch(r, msg) ==
  IF ~r.headersSent THEN ResJson(ResStatus(r, 500), msg)
  ELSE ResEnd(ResWrite(r, Ev("error", msg)))

\* generateContent / streamGenerateContent up to fetch: the key, then the length
CallPrefix(pr, key) ==
  IF ~key THEN "Missing Gemini API key"
  ELSE IF TooLong(pr) THEN "Input too long, 50k tokens max"
  ELSE "fetch"

Outcome(r) ==
  [pc |-> "closed", res |-> r, hb |-> "none", gate |-> "none", calls |-> 0]

Fetching(o) == [o EXCEPT !.pc = "fetch", !.calls = 1]

\* gemini.js:144-398, after the gate
GeminiRoute(sp, pr, key, flush) ==
  LET c == CallPrefix(pr, key)
      tooLong == c = "Input too long, 50k tokens max"
  IN
  CASE sp = "" ->
         IF MissingPrompt(pr) THEN Outcome(ResJson(ResStatus(NewRes, 400), "Missing prompt"))
         ELSE IF c = "fetch" THEN Fetching(Outcome(NewRes))
         ELSE Outcome(ResJson(ResStatus(NewRes, IF tooLong THEN 400 ELSE 500), c))
    [] sp = "silent" ->
         IF MissingPrompt(pr) THEN Outcome(ResEnd(ResStatus(NewRes, 400)))
         ELSE IF c = "fetch" THEN Fetching(Outcome(NewRes))
         ELSE Outcome(ResEnd(ResStatus(NewRes, IF tooLong THEN 400 ELSE 500)))
    [] sp = "stream" ->
         IF MissingPrompt(pr) THEN Outcome(ResJson(ResStatus(NewRes, 400), "Missing prompt"))
         ELSE LET r == FlushHeaders([NewRes EXCEPT !.contentType = SSE], flush)
                  o == [Outcome(r) EXCEPT !.hb = "armed"]
              IN IF c = "fetch" THEN Fetching(o)
                 ELSE [o EXCEPT !.res = StreamCatch(r, c)]
    [] sp = "stream/silent" ->
         IF MissingPrompt(pr) THEN Outcome(ResEnd(ResStatus(NewRes, 400)))
         ELSE IF c = "fetch" THEN Fetching(Outcome(NewRes))
         ELSE Outcome(ResEnd(ResStatus(NewRes, 500)))
    [] OTHER -> Outcome(ResJson(ResStatus(NewRes, 404), "Unknown Gemini route"))

\* The entry with the gate placed after the route's own validation: a POST
\* answered without an upstream call does not go through the limiter
GeminiEntryLateGate(m, sp, pr, key, flush, times, reached, t) ==
  LET same == [times |-> times, limitReached |-> reached, admit |-> "none",
               body |-> NoStatus]
      q == LimitStatus(times, t)
      a == RateLimiter(times, t)
      lim == [same EXCEPT !.times = a.times, !.limitReached = a.limitReached,
                          !.admit = IF a.ok THEN "true" ELSE "false"]
      o == GeminiRoute(sp, pr, key, flush)
  IN
  IF m = "OPTIONS" THEN [o |-> Outcome(ResEnd(ResStatus(NewRes, 204))), lim |-> same]
  ELSE IF m = "GET" /\ sp = "limit" THEN
    [o |-> Outcome(ResJson(ResStatus(NewRes, 200), "limit")),
     lim |-> [same EXCEPT !.times = q.times, !.limitReached = q.limitReached,
                          !.body = q.body]]
  ELSE IF m # "POST" THEN
    [o |-> Outcome(ResJson(ResStatus(NewRes, 405), "Method Not Allowed")), lim |-> same]
  ELSE IF o.calls = 0 THEN [o |-> o, lim |-> same]
  ELSE IF ~a.ok
       THEN [o |-> [Outcome(ResEnd(ResStatus(NewRes, 429))) EXCEPT !.gate = "rejected"],
             lim |-> lim]
       ELSE [o |-> [o EXCEPT !.gate = "admitted"], lim |-> lim]

\* gemini.js:97-142: CORS, OPTIONS, GET limit, the method test and the gate.
\* lim is what the limiter state becomes: [times, limitReached, admit, body].
GeminiEntry(m, sp, pr, key, flush, times, reached, t) ==
  LET same == [times |-> times, limitReached |-> reached, admit |-> "none",
               body |-> NoStatus]
  IN
  IF m = "OPTIONS" THEN [o |-> Outcome(ResEnd(ResStatus(NewRes, 204))), lim |-> same]
  ELSE IF m = "GET" /\ sp = "limit" THEN
    LET q == LimitStatus(times, t)
    IN [o |-> Outcome(ResJson(ResStatus(NewRes, 200), "limit")),
        lim |-> [same EXCEPT !.times = q.times, !.limitReached = q.limitReached,
                             !.body = q.body]]
  ELSE IF m # "POST" THEN
    [o |-> Outcome(ResJson(ResStatus(NewRes, 405), "Method Not Allowed")), lim |-> same]
  ELSE
    LET a == RateLimiter(times, t)
        lim == [same EXCEPT !.times = a.times, !.limitReached = a.limitReached,
                            !.admit = IF a.ok THEN "true" ELSE "false"]
    IN IF ~a.ok
       THEN [o |-> [Outcome(ResEnd(ResStatus(NewRes, 429))) EXCEPT !.gate = "rejected"],
             lim |-> lim]
       ELSE [o |-> [GeminiRoute(sp, pr, key, flush) EXCEPT !.gate = "admitted"],
             lim |-> lim]

\* A 4xx/5xx answer of a standalone handler: res.status(code).json or .end
FileAnswer(f, code, msg) ==
  IF AnswersJson(f) THEN Outcome(ResJson(ResStatus(NewRes, code), msg))
  ELSE Outcome(ResEnd(ResStatus(NewRes, code)))

\* stream.js:2-32, index.js:2-33 and :48-73, silent.js:2-25
FileEntry(f, m, pr, key) ==
  IF m = "OPTIONS" THEN Outcome(ResEnd(ResStatus(NewRes, 204)))
  ELSE IF m # "POST" THEN FileAnswer(f, 405, "Method Not Allowed")
  ELSE IF ~key THEN FileAnswer(f, 500, "Missing Gemini API key")
  ELSE IF MissingPrompt(pr) THEN FileAnswer(f, 400, "Missing prompt")
  ELSE IF TooLong(pr) /\ f # SilentJs
       THEN FileAnswer(f, 400, "Input too long, 50k tokens max")
  ELSE Fetching(Outcome(NewRes))

\* One request arrives: the handler runs up to its first await of the upstream
HandleRequest(f, m, sp, pr, key) ==
  /\ f # Gemini => sp = ServedBy(f)
  /\ IF f = Gemini
     THEN \E g \in {GeminiEntry(m, sp, pr, key, hasFlush, requestTimes, limitReached, now)} :
            /\ pc' = g.o.pc
            /\ res' = g.o.res
            /\ hb' = g.o.hb
            /\ gate' = g.o.gate
            /\ upstreamCalls' = g.o.calls
            /\ requestTimes' = g.lim.times
            /\ limitReached' = g.lim.limitReached
            /\ lastAdmit' = g.lim.admit
            /\ lastStatus' = g.lim.body
            /\ admitLog' = IF g.lim.admit = "true" THEN Append(admitLog, now)
                           ELSE admitLog
            /\ shadow' = IF g.lim.admit # "none" THEN ShadowCall(shadow, now)
                          ELSE ShadowIdle(shadow)
     ELSE \E o \in {FileEntry(f, m, pr, key)} :
            /\ pc' = o.pc
            /\ res' = o.res
            /\ hb' = o.hb
            /\ gate' = o.gate
            /\ upstreamCalls' = o.calls
            /\ lastAdmit' = "none"
            /\ lastStatus' = NoStatus
            /\ shadow' = ShadowIdle(shadow)
            /\ UNCHANGED <<requestTimes, limitReached, admitLog>>
  /\ file' = f
  /\ route' = [method |-> m, subpath |-> sp, prompt |-> pr, key |-> key]
  /\ upstream' = NoUpstream
  /\ nChunks' = 0
  /\ term' = "none"
  /\ pings' = 0
  /\ gone' = FALSE
  /\ late' = {}
  /\ buffer' = <<>>
  /\ frags' = <<>>
  /\ text' = <<>>
  /\ UNCHANGED <<now, ticks, hasFlush, pos, lastCut, eos, lines>>

----------------------------------------------------------------------------
(* The handlers from the upstream's answer on *)

Shapes == {"reader", "emitter", "asyncIter", "unknown", "null"}

\* What fetch may settle with: a rejection, a non-2xx response, a 2xx response
\* whose body is not JSON, or a 2xx response with a body of some shape
Replies ==
  {[ok |-> TRUE, json |-> TRUE, status |-> 200, shape |-> sh] : sh \in Shapes}
  \cup {[ok |-> FALSE, json |-> TRUE, status |-> 503, shape |-> "reader"],
        [ok |-> TRUE, json |-> FALSE, status |-> 200, shape |-> "reader"],
        [ok |-> FALSE, json |-> FALSE, status |-> 0, shape |-> "rejected"]}

Adapted == {"reader", "emitter", "asyncIter"}

Settled(r, h) == [pc |-> "closed", res |-> r, hb |-> h]
Streaming(r, h) == [pc |-> "streaming", res |-> r, hb |-> h]

\* catch (e) of stream.js:140-143
StreamJsCatch(r, msg) ==
  IF ~r.headersSent THEN ResJson(ResStatus(r, 500), msg) ELSE ResEnd(r)

\* gemini.js:193-195 and :252-308: streamGenerateContent settles, the body
\* is adapted; every failure lands in the catch, which leaves hb as it is
GeminiStreamReply(u, r, h) ==
  IF u.shape = "rejected" THEN Settled(StreamCatch(r, "fetch failed"), h)
  ELSE IF ~u.ok \/ u.shape = "null"
       THEN Settled(StreamCatch(r, "Gemini streaming error"), h)
  ELSE IF u.shape \in Adapted THEN Streaming(r, h)
  ELSE Settled(StreamCatch(r, "Unknown upstream body stream type"), h)

\* stream.js:32-143
StreamJsReply(u, r, flush) ==
  IF u.shape = "rejected" THEN Settled(StreamJsCatch(r, "fetch failed"), "none")
  ELSE IF ~u.ok \/ u.shape = "null"
       THEN Settled(ResJson(ResStatus(r, u.status), "Gemini streaming error"), "none")
  ELSE LET r1 == FlushHeaders([r EXCEPT !.contentType = SSE], flush)
       IN IF u.shape \in Adapted THEN Streaming(r1, "armed")
          ELSE IF r1.headersSent
               THEN Settled(StreamJsCatch(ResStatus(r1, 502), "headers sent"), "armed")
               ELSE Settled(ResJson(ResStatus(r1, 502),
                                    "Unknown upstream body stream type"), "armed")

\* gemini.js:316-318 and :363-395
GeminiStreamSilentReply(u, r) ==
  IF u.shape = "rejected" \/ ~u.ok \/ u.shape = "null"
  THEN Settled(ResEnd(ResStatus(r, 500)), "none")
  ELSE IF u.shape \in Adapted THEN Streaming(r, "none")
  ELSE Settled(ResJson(ResStatus(r, 502), "Unknown upstream body stream type"), "none")

\* index.js:72-75 and :120-152
StreamSilentJsReply(u, r) ==
  IF u.shape = "rejected" THEN Settled(ResEnd(ResStatus(r, 500)), "none")
  ELSE IF u.shape = "null" THEN Settled(ResEnd(ResStatus(r, 502)), "none")
  ELSE IF u.shape \in Adapted THEN Streaming(r, "none")
  ELSE Settled(ResEnd(ResStatus(r, 502)), "none")

\* The text and silent routes: gemini.js:38-50 with :152-172, index.js:32-44,
\* silent.js:24-32
PlainReply(f, kind, u, r) ==
  LET failed == u.shape = "rejected" \/ ~u.json IN
  IF f = Gemini /\ kind = "" THEN
    IF failed \/ ~u.ok THEN Settled(ResJson(ResStatus(r, 500), "Gemini API error"), "none")
    ELSE Settled(ResJson(ResStatus(r, 200), "text"), "none")
  ELSE IF f = Gemini THEN
    IF failed \/ ~u.ok THEN Settled(ResEnd(ResStatus(r, 500)), "none")
    ELSE Settled(ResEnd(ResStatus(r, 204)), "none")
  ELSE IF f = IndexJs THEN
    IF u.shape = "rejected" THEN Settled(ResJson(ResStatus(r, 500), "fetch failed"), "none")
    ELSE IF ~u.ok THEN Settled(ResJson(ResStatus(r, u.status), "Gemini API error"), "none")
    ELSE IF ~u.json THEN Settled(ResJson(ResStatus(r, 500), "invalid json"), "none")
    ELSE Settled(ResJson(ResStatus(r, 200), "text"), "none")
  ELSE
    IF u.shape = "rejected" THEN Settled(ResEnd(ResStatus(r, 500)), "none")
    ELSE Settled(ResEnd(ResStatus(r, 204)), "none")

\* Whether the current request relays SSE to the caller
IsSse == route.subpath = "stream"

\* fetch settles
UpstreamReply(u) ==
  /\ pc = "fetch"
  /\ LET o == CASE route.subpath = "stream" /\ file = Gemini ->
                    GeminiStreamReply(u, res, hb)
               [] route.subpath = "stream" /\ file # Gemini ->
                    StreamJsReply(u, res, hasFlush)
               [] route.subpath = "stream/silent" /\ file = Gemini ->
                    GeminiStreamSilentReply(u, res)
               [] route.subpath = "stream/silent" /\ file # Gemini ->
                    StreamSilentJsReply(u, res)
               [] OTHER -> PlainReply(file, route.subpath, u, res)
     IN /\ pc' = o.pc
        /\ res' = o.res
        /\ hb' = o.hb
  /\ upstream' = u
  /\ UNCHANGED <<limiterVars, file, route, gate, upstreamCalls, hasFlush,
                 nChunks, term, pings, gone, late, buffer, frameVars>>

\* The chunks an upstream may deliver
SessionChunks ==
  {<<"DATA", "JA", "NL", "NL">>, <<"DATA", "JH">>, <<"JT", "NL">>, <<"DATA", "JA">>,
   <<"DATA", "JH", "JT", "NL", "NL">>}

\* A chunk arrives (reader.read() resolves, 'data' fires, the iterator yields):
\* handleText(chunk), every fragment written or logged
Chunk(c) ==
  /\ pc = "streaming"
  /\ term = "none"
  /\ nChunks < MaxChunks
  /\ LET r == handleText(buffer, c)
     IN /\ buffer' = r.buf
        /\ IF IsSse
           THEN res' = ResWriteAll(res, "data", r.frags) /\ frags' = frags
           ELSE frags' = frags \o r.frags /\ res' = res
  /\ nChunks' = nChunks + 1
  /\ text' = text \o c
  /\ late' = IF gone THEN late \cup {"chunk"} ELSE late
  /\ UNCHANGED <<limiterVars, file, route, pc, gate, upstreamCalls, upstream,
                 hasFlush, hb, term, pings, gone, pos, lastCut, eos, lines>>

\* flushDone closing the response without the done pair
flushDoneBare(r) == ResEnd(r)

\* flushDone, gemini.js:200-205 and stream.js:93-98, on response r
flushDone(r) ==
  ResEnd(ResWrite(ResWrite(r, Ev("event", "done")), Ev("data", "[DONE]")))

\* The upstream ends: the tail of the buffer is flushed, then flushDone on
\* the SSE routes and 204 on the stream/silent routes
UpstreamEnd ==
  /\ pc = "streaming"
  /\ term = "none"
  /\ LET r == flushTail(buffer)
     IN /\ buffer' = r.buf
        /\ IF IsSse
           THEN /\ res' = flushDone(ResWriteAll(res, "data", r.frags))
                /\ hb' = "cleared"
                /\ frags' = frags
           ELSE /\ res' = ResEnd(ResStatus(res, 204))
                /\ hb' = hb
                /\ frags' = frags \o r.frags
  /\ pc' = "closed"
  /\ term' = "end"
  /\ UNCHANGED <<limiterVars, file, route, gate, upstreamCalls, upstream,
                 hasFlush, nChunks, pings, gone, late, text, pos, lastCut, eos,
                 lines>>

\* An error path that goes on into flushDone after closing the response
SseErrorThenDone(f, r) ==
  flushDone(IF f = Gemini THEN ResEnd(ResWrite(r, Ev("error", "upstream failed")))
            ELSE ResEnd(r))

\* The catch / 'error' listener of an SSE adapter branch on response r:
\* gemini.js:263-267, :278-282, :292-296 and stream.js:111-114, :122, :132-135
SseError(f, r) ==
  IF f = Gemini THEN ResEnd(ResWrite(r, Ev("error", "upstream failed")))
  ELSE ResEnd(r)

\* What the adapter branch for a body of the given shape does when the
\* upstream fails, on response r with buffer buf. SSE routes: SseError. The
\* stream/silent routes: the 'error' listener of the emitter branch is the
\* promise's resolve, so the handler goes on as after 'end' (gemini.js:372-382,
\* index.js:134-144); in the other two branches the rejection reaches the
\* catch (gemini.js:393-395, index.js:150-152).
OnUpstreamError(f, sse, shape, r, buf) ==
  IF sse THEN [res |-> SseError(f, r), buf |-> buf, frags |-> <<>>]
  ELSE IF shape = "emitter"
       THEN LET t == flushTail(buf)
            IN [res |-> ResEnd(ResStatus(r, 204)), buf |-> t.buf, frags |-> t.frags]
       ELSE [res |-> ResEnd(ResStatus(r, 500)), buf |-> buf, frags |-> <<>>]

\* An upstream failure that no catch and no 'error' listener picks up
UpstreamErrorUnheard ==
  /\ pc = "streaming"
  /\ term = "none"
  /\ term' = "error"
  /\ UNCHANGED <<limiterVars, file, route, pc, gate, upstreamCalls, upstream,
                 hasFlush, res, hb, nChunks, pings, gone, late, buffer, frameVars>>

\* The upstream fails mid-stream (read() rejects, 'error' fires, the iterator
\* throws)
UpstreamError ==
  /\ pc = "streaming"
  /\ term = "none"
  /\ \E o \in {OnUpstreamError(file, IsSse, upstream.shape, res, buffer)} :
       /\ res' = o.res
       /\ buffer' = o.buf
       /\ frags' = frags \o o.frags
  /\ hb' = IF IsSse THEN "cleared" ELSE hb
  /\ pc' = "closed"
  /\ term' = "error"
  /\ UNCHANGED <<limiterVars, file, route, gate, upstreamCalls, upstream,
                 hasFlush, nChunks, pings, gone, late, text, pos, lastCut, eos,
                 lines>>

\* A push-emitter body fires its other terminating event after the first:
\* 'error' after 'end', or 'end' after 'error'. The listeners were added with
\* on(), none is removed and no flag records that the session is over, so the
\* other listener runs as it would have on a live session. On the
\* stream/silent routes both listeners are the resolve of a promise that is
\* already settled, and nothing happens.
LateSignal ==
  /\ pc = "closed"
  /\ term \in {"end", "error"}
  /\ upstream.shape = "emitter"
  /\ IF ~IsSse THEN UNCHANGED <<res, hb, buffer>>
     ELSE IF term = "end"
          THEN /\ res' = SseError(file, res)
               /\ hb' = "cleared"
               /\ buffer' = buffer
          ELSE \E r \in {flushTail(buffer)} :
                 /\ buffer' = r.buf
                 /\ res' = flushDone(ResWriteAll(res, "data", r.frags))
                 /\ hb' = "cleared"
  /\ term' = "both"
  /\ UNCHANGED <<limiterVars, file, route, pc, gate, upstreamCalls, upstream,
                 hasFlush, nChunks, pings, gone, late, frameVars>>

\* The caller goes away while the session is streaming. No handler listens
\* for 'close' on req or res, so nothing of the session changes.
Disconnect ==
  /\ pc = "streaming"
  /\ ~gone
  /\ gone' = TRUE
  /\ UNCHANGED <<limiterVars, file, route, pc, gate, upstreamCalls, upstream,
                 hasFlush, res, hb, nChunks, term, pings, late, buffer, frameVars>>

\* The setInterval callback fires: res.write(': ping\n\n')
Heartbeat ==
  /\ hb = "armed"
  /\ pings < MaxPings
  /\ res' = ResWrite(res, Ev("ping", ""))
  /\ pings' = pings + 1
  /\ late' = IF gone THEN late \cup {"ping"} ELSE late
  /\ UNCHANGED <<limiterVars, file, route, pc, gate, upstreamCalls, upstream,
                 hasFlush, hb, nChunks, term, gone, buffer, frameVars>>

----------------------------------------------------------------------------
(* Initial states *)

LimiterInit ==
  /\ now = 0
  /\ ticks = 0
  /\ requestTimes = <<>>
  /\ limitReached = FALSE
  /\ admitLog = <<>>
  /\ lastAdmit = "none"
  /\ lastStatus = NoStatus
  /\ shadow = [times |-> <<>>, ok |-> "none"]

RequestIdle ==
  /\ file = "none"
  /\ route = NoRoute
  /\ pc = "idle"
  /\ gate = "none"
  /\ upstreamCalls = 0
  /\ upstream = NoUpstream
  /\ res = NewRes
  /\ hb = "none"
  /\ nChunks = 0
  /\ term = "none"
  /\ pings = 0
  /\ gone = FALSE
  /\ late = {}

FramesIdle ==
  /\ text = <<>>
  /\ pos = 0
  /\ lastCut = 0
  /\ frags = <<>>
  /\ eos = FALSE
  /\ lines = <<>>

----------------------------------------------------------------------------
(* Specifications *)

\* The limiter alone: calls of geminiRateLimiter and GET limit as time passes
InitLimiter ==
  /\ LimiterInit /\ RequestIdle /\ FramesIdle
  /\ hasFlush = TRUE
  /\ buffer = <<>>

NextLimiter == Tick \/ Admit \/ StatusQuery

SpecLimiter == InitLimiter /\ [][NextLimiter]_vars

\* The frame reassembler alone: every text up to MaxTextLen, every chunking
InitFrames ==
  /\ LimiterInit /\ RequestIdle
  /\ hasFlush = TRUE
  /\ buffer = <<>>
  /\ text \in SeqsUpTo(Token, MaxTextLen)
  /\ pos = 0
  /\ lastCut = 0
  /\ frags = <<>>
  /\ eos = FALSE
  /\ lines = <<>>

NextFrames == (\E k \in 1..MaxTextLen : Feed(k)) \/ EndOfText

SpecFrames == InitFrames /\ [][NextFrames]_vars

\* The payload extractor alone: every frame of up to MaxLines lines
InitExtract ==
  /\ LimiterInit /\ RequestIdle
  /\ hasFlush = TRUE
  /\ buffer = <<>>
  /\ text = <<>>
  /\ pos = 0
  /\ lastCut = 0
  /\ frags = <<>>
  /\ eos = FALSE
  /\ lines \in SeqsUpTo(LineShapes, MaxLines)

NextExtract == \E ending \in LineEndings : ExtractFrame(ending)

SpecExtract == InitExtract /\ [][NextExtract]_vars

\* One request from its arrival to the end of its session
Init ==
  /\ LimiterInit /\ RequestIdle /\ FramesIdle
  /\ hasFlush \in BOOLEAN
  /\ buffer = <<>>

Request ==
  /\ pc = "idle"
  /\ \E f \in Files, m \in Methods, sp \in Subpaths, pr \in Prompts, key \in BOOLEAN :
       HandleRequest(f, m, sp, pr, key)

Reply == \E u \in Replies : UpstreamReply(u)

Deliver == \E c \in SessionChunks : Chunk(c)

Next ==
  \/ Request \/ Reply \/ Deliver \/ UpstreamEnd \/ UpstreamError \/ Heartbeat
  \/ Disconnect

Spec == Init /\ [][Next]_vars

\* The same, with an upstream body that ends or fails after finitely many
\* chunks, as every body shape does once its source is exhausted or broken:
\* weak fairness of UpstreamEnd \/ UpstreamError, whose enabling condition is
\* the guard the two actions share
UpstreamFair ==
  \/ []<>(~(pc = "streaming" /\ term = "none"))
  \/ []<><<UpstreamEnd \/ UpstreamError>>_vars

SpecLive == Spec /\ UpstreamFair

\* The sessions with a push-emitter body that may fire both 'end' and 'error'
NextSignals == Next \/ LateSignal

SpecSignals == Init /\ [][NextSignals]_vars

\* Requests arriving one after another at one instant against the shared
\* limiter, each handled up to its upstream call
NewRequest ==
  \E f \in Files, m \in Methods, sp \in Subpaths, pr \in Prompts, key \in BOOLEAN :
    HandleRequest(f, m, sp, pr, key)

NextGate == NewRequest

SpecGate == InitLimiter /\ [][NextGate]_vars

----------------------------------------------------------------------------
\* The current request is a POST on the SSE relay route
SseRequest == route.method = "POST" /\ route.subpath = "stream"

NodeResponse == hasFlush

\* C2 as claimed: once an SSE relay request's response has been ended, its
\* heartbeat interval is no longer armed.
C2_HeartbeatCancelled ==
  (NodeResponse /\ SseRequest /\ res.ended > 0) => hb # "armed"

\* C3 as claimed: nothing is written to a response after it has been ended.
C3_NoWriteAfterEnd ==
  NodeResponse => \A i \in 1..(Len(res.out) - 1) : res.out[i].k \notin {"end", "json"}

\* C7: after the upstream's normal end the SSE response is, in order, data
\* events and pings only, then "event: done", then data "[DONE]", then the
\* close; nothing follows.
C7_DonePairLast ==
  (SseRequest /\ term = "end") =>
    LET n == Len(res.out) IN
    /\ n >= 3
    /\ res.out[n - 2] = Ev("event", "done")
    /\ res.out[n - 1] = Ev("data", "[DONE]")
    /\ res.out[n] = Ev("end", "")
    /\ \A i \in 1..(n - 3) : res.out[i].k \in {"data", "ping"} /\ res.out[i].v # "[DONE]"

\* A normal end after two chunks whose tail had to be flushed first
C7_Witness ==
  /\ SseRequest /\ term = "end" /\ nChunks = 2
  /\ Len(res.out) >= 5
  /\ res.out[Len(res.out) - 3] = Ev("data", "a")
  /\ \E i \in 1..Len(res.out) : res.out[i].k = "ping"

\* C8 as claimed: a mid-stream upstream failure makes every SSE handler write
\* an error frame and then close the response.
C8_ErrorFrameThenClose ==
  (NodeResponse /\ SseRequest /\ term = "error") =>
    LET n == Len(res.out) IN
    /\ n >= 2
    /\ res.out[n - 1].k = "error"
    /\ res.out[n] = Ev("end", "")

\* C9 as claimed: a non-2xx upstream answer on the stream route is relayed as
\* one JSON response with the upstream's status; no SSE header or byte is sent.
C9_UpstreamStatusRelayed ==
  (NodeResponse /\ SseRequest /\ pc = "closed" /\ upstream.shape # "none"
     /\ ~upstream.ok /\ upstream.status # 0) =>
    /\ res.sentStatus = upstream.status
    /\ ~res.sseSent
    /\ res.out = <<Ev("json", "Gemini streaming error")>>

\* C6 as claimed: an upstream call is issued only for a request the limiter
\* admitted, and a rejected request is answered 429 without an upstream call.
C6_GateBeforeUpstream ==
  /\ upstreamCalls > 0 => gate = "admitted"
  /\ gate = "rejected" => (res.sentStatus = 429 /\ upstreamCalls = 0)

----------------------------------------------------------------------------
\* The admissions recorded in the rolling window that ends at instant t
AdmittedInWindow(t) ==
  Cardinality({i \in 1..Len(admitLog) : t - WINDOW_MS < admitLog[i] /\ admitLog[i] <= t})

\* C4: at most MAX_REQ calls of geminiRateLimiter return true within any
\* rolling window of WINDOW_MS, whatever status queries come between; a call is
\* rejected only when the window ending at it already holds MAX_REQ admissions,
\* so from an empty window the first MAX_REQ calls are admitted and the next
\* one inside the window is rejected.
C4_AtMostMaxPerWindow ==
  /\ \A i \in 1..Len(admitLog) : AdmittedInWindow(admitLog[i]) <= MAX_REQ
  /\ lastAdmit = "false" => AdmittedInWindow(now) = MAX_REQ
  /\ lastAdmit = "true" => AdmittedInWindow(now) <= MAX_REQ

\* The 11th call inside the window of ten admissions has just been rejected
C4_Witness ==
  /\ lastAdmit = "false"
  /\ Len(admitLog) = MAX_REQ
  /\ now < admitLog[1] + WINDOW_MS

\* C5: a call of geminiRateLimiter made while MAX_REQ admissions are retained,
\* the oldest at t0, returns true exactly when now >= t0 + WINDOW_MS.
C5_ResumesAtWindowEnd ==
  [][(lastAdmit' # "none" /\ Len(requestTimes) = MAX_REQ)
       => (lastAdmit' = "true" <=> now >= requestTimes[1] + WINDOW_MS)]_vars

\* Ten admissions at t0, then an 11th admitted exactly at t0 + WINDOW_MS
C5_Witness ==
  /\ lastAdmit = "true"
  /\ Len(admitLog) = MAX_REQ + 1
  /\ admitLog[MAX_REQ] = admitLog[1]
  /\ now = admitLog[1] + WINDOW_MS

----------------------------------------------------------------------------
\* C10: once every chunk and the end-of-stream step have been handled, the
\* fragments extracted are those of the whole text fed as one chunk, in the
\* same order, and the same text is left in the buffer.
C10_ChunkingIndependent ==
  eos => /\ frags = WholeText(text).frags
         /\ buffer = WholeText(text).buf

\* The last chunk began inside a "\n\n" delimiter, and fragments came out
C10_Witness ==
  /\ eos
  /\ text = <<"JA", "NL", "NL", "JA">>
  /\ lastCut = 2
  /\ frags = <<"a", "a">>

----------------------------------------------------------------------------
\* The fragments a line carries: those of its JSON payload when the line is
\* a well-formed payload line ("data:"-prefixed or bare), none otherwise
PayloadFragments(line) ==
  CASE line \in {<<"DATA", "JA">>, <<"JA">>, <<"CR", "DATA", "CR", "JA">>} -> <<"a">>
    [] line = <<"DATA", "JH", "JT">> -> <<"b", "c">>
    [] OTHER -> <<>>

RECURSIVE FrameFragments(_)
FrameFragments(ls) ==
  IF ls = <<>> THEN <<>>
  ELSE PayloadFragments(Head(ls)) \o FrameFragments(Tail(ls))

\* C11: the fragments extracted from a frame are the fragments of its
\* well-formed payload lines, concatenated in line order; N lines holding one
\* fragment each give N fragments; empty, comment, event, malformed and
\* candidate-less lines give none and leave the other lines' fragments alone.
C11_FragmentsInLineOrder ==
  eos => /\ frags = FrameFragments(lines)
         /\ (\A i \in 1..Len(lines) : Len(PayloadFragments(lines[i])) = 1)
              => Len(frags) = Len(lines)

\* A malformed line between a one-fragment line and a two-fragment line
C11_Witness ==
  /\ eos
  /\ lines = << <<"DATA", "JA">>, <<"DATA", "JH">>, <<"DATA", "JH", "JT">> >>
  /\ frags = <<"a", "b", "c">>

----------------------------------------------------------------------------
\* The fragments of the data events written to a response, in order
RECURSIVE DataEvents(_)
DataEvents(out) ==
  IF out = <<>> THEN <<>>
  ELSE (IF Head(out).k = "data" /\ Head(out).v # "[DONE]" THEN <<Head(out).v>> ELSE <<>>)
       \o DataEvents(Tail(out))

\* C12: at every moment of an SSE session the data events written are, one
\* per fragment and in the same order, the fragments of the upstream text
\* received so far (chunks taken in arrival order, one at a time), and after
\* the upstream's end they are the fragments of the whole upstream text.
C12_EventsInUpstreamOrder ==
  (SseRequest /\ upstream.shape \in Adapted) =>
    DataEvents(res.out) = IF term = "end" THEN WholeText(text).frags
                          ELSE handleText(<<>>, text).frags

\* Two frames in two chunks, one fragment then two, then the normal end
C12_Witness ==
  /\ SseRequest /\ term = "end" /\ nChunks = 2
  /\ text = <<"DATA", "JA", "NL", "NL", "DATA", "JH", "JT", "NL", "NL">>
  /\ DataEvents(res.out) = <<"a", "b", "c">>

----------------------------------------------------------------------------
\* C13: with an upstream that eventually ends or fails, every session that
\* started streaming (SSE or stream/silent) reaches a terminal state, DONE
\* after the end and ERRORED after a failure, with its response closed; and
\* nothing leaves a terminal state.
C13_SessionTerminates ==
  /\ (pc = "streaming") ~> (pc = "closed" /\ term # "none" /\ res.ended = 1)
  /\ [][pc = "closed" => (pc' = "closed" /\ term' = term /\ res'.ended = res.ended)]_vars

\* A stream/silent session over a push-emitter body that failed after a chunk
C13_Witness ==
  /\ file = Gemini /\ route.subpath = "stream/silent"
  /\ upstream.shape = "emitter" /\ nChunks > 0
  /\ pc = "closed" /\ term = "error" /\ res.ended = 1

----------------------------------------------------------------------------
\* The relay routes
RelayRoutes == {"", "silent", "stream", "stream/silent"}

\* C14 as claimed: on every relay route of the routed handler a prompt
\* longer than maxChars is answered with a 4xx status and no upstream call is
\* issued for it, and a prompt of exactly maxChars characters goes on to the
\* upstream call.
C14_LongPromptRejected ==
  (NodeResponse /\ file = Gemini /\ route.method = "POST" /\ route.key
     /\ pc # "idle" /\ route.subpath \in RelayRoutes /\ gate # "rejected") =>
    /\ route.prompt > maxChars =>
         (upstreamCalls = 0 /\ res.sentStatus >= 400 /\ res.sentStatus <= 499)
    /\ route.prompt = maxChars => upstreamCalls = 1

----------------------------------------------------------------------------
\* C15 as claimed: when the upstream answers 2xx with a body that is absent
\* or has none of the three shapes, the SSE relay request is answered 502, and
\* neither a data event nor the done pair is written.
C15_UnsupportedShapeIs502 ==
  (NodeResponse /\ SseRequest /\ pc = "closed" /\ upstream.ok
     /\ upstream.shape \in {"unknown", "null"}) =>
    /\ res.sentStatus = 502
    /\ \A i \in 1..Len(res.out) : res.out[i].k \notin {"data", "event"}

----------------------------------------------------------------------------
\* C16 as claimed: once the caller has disconnected from a streaming session,
\* the session processes no further upstream chunk and its heartbeat fires
\* no more.
C16_StopsOnDisconnect == late = {}

----------------------------------------------------------------------------
\* The last n entries of a sequence
LastN(sq, n) == SubSeq(sq, Len(sq) - n + 1, Len(sq))

\* C17: a call of geminiRateLimiter that returns false records nothing: the
\* retained instants are always the most recent admissions and never hold
\* the instant of a rejected call, and right after a rejected call they are
\* exactly the last MAX_REQ admissions, so the oldest of them, which fixes
\* when admission resumes, is not moved by rejected calls.
C17_RejectedAppendsNothing ==
  /\ \E n \in 0..Len(admitLog) : requestTimes = LastN(admitLog, n)
  /\ lastAdmit = "false" =>
       /\ Len(admitLog) >= MAX_REQ
       /\ requestTimes = LastN(admitLog, MAX_REQ)

\* A call rejected in the last millisecond before the window of ten
\* admissions made at one instant expires
C17_Witness ==
  /\ lastAdmit = "false"
  /\ Len(admitLog) = MAX_REQ
  /\ admitLog[1] = admitLog[MAX_REQ]
  /\ now = admitLog[1] + WINDOW_MS - 1
  /\ requestTimes = admitLog

----------------------------------------------------------------------------
\* C18: GET limit never records an instant and never changes what a call of
\* geminiRateLimiter returns: every call returns what it returns in the run
\* with the same calls at the same instants and no status query, and the
\* instants retained inside the window are the same in both runs.
C18_StatusQueryReadOnly ==
  /\ shadow.ok = lastAdmit
  /\ SelectSeq(requestTimes, LAMBDA x : now - x < WINDOW_MS)
       = SelectSeq(shadow.times, LAMBDA x : now - x < WINDOW_MS)

\* A status query has just dropped ten expired entries that the run without
\* queries still holds
C18_Witness ==
  /\ lastStatus # NoStatus
  /\ lastStatus.limit = 0
  /\ requestTimes = <<>>
  /\ Len(shadow.times) = MAX_REQ

----------------------------------------------------------------------------
\* C19: a GET limit answer with limit 0 has secondsRemaining 0; one with
\* limit 1 has secondsRemaining = ceil((WINDOW_MS - (now - oldest)) / 1000)
\* for the oldest retained instant, which lies between 1 and 60.
C19_SecondsRemaining ==
  lastStatus # NoStatus =>
    /\ lastStatus.limit \in {0, 1}
    /\ lastStatus.limit = 0 => lastStatus.secondsRemaining = 0
    /\ lastStatus.limit = 1 =>
         LET ms == WINDOW_MS - (now - requestTimes[1])
             k == lastStatus.secondsRemaining
         IN /\ 1000 * (k - 1) < ms /\ ms <= 1000 * k
            /\ 1 <= k /\ k <= 60

\* A query in the last millisecond of the window of ten admissions: 1 second
C19_Witness ==
  /\ lastStatus # NoStatus
  /\ lastStatus.limit = 1
  /\ lastStatus.secondsRemaining = 1
  /\ now = requestTimes[1] + WINDOW_MS - 1

----------------------------------------------------------------------------
\* What the routed handler answers to a POST on relay route sp arriving now
PostStatusNow(sp) ==
  GeminiEntry("POST", sp, 1, TRUE, TRUE, requestTimes, limitReached, now).o.res.sentStatus

\* C20: at the instant of a GET limit answer, the answer has limit 1 exactly
\* when a POST to the routed handler arriving at that instant is answered
\* 429; and a query made while the last MAX_REQ admissions are all inside the
\* window (the state in which further requests are rejected) answers limit 1
\* with a nonzero secondsRemaining.
C20_StatusAgreesWithGate ==
  lastStatus # NoStatus =>
    /\ \A sp \in RelayRoutes : lastStatus.limit = 1 <=> PostStatusNow(sp) = 429
    /\ (Len(admitLog) >= MAX_REQ /\ now < LastN(admitLog, MAX_REQ)[1] + WINDOW_MS)
         => (lastStatus.limit = 1 /\ lastStatus.secondsRemaining > 0)

\* A query one millisecond after ten admissions made at one instant
C20_Witness ==
  /\ lastStatus # NoStatus
  /\ lastStatus.limit = 1
  /\ Len(admitLog) = MAX_REQ
  /\ now = admitLog[1] + 1
  /\ PostStatusNow("stream") = 429

----------------------------------------------------------------------------
\* C21: right after a call of geminiRateLimiter or a GET limit evaluation at
\* instant now, every retained instant t has 0 <= now - t < WINDOW_MS; and
\* requestTimes is always ordered oldest first and never longer than MAX_REQ.
C21_RetainedWithinWindow ==
  /\ (lastAdmit # "none" \/ lastStatus # NoStatus) =>
       \A i \in 1..Len(requestTimes) :
         0 <= now - requestTimes[i] /\ now - requestTimes[i] < WINDOW_MS
  /\ \A i \in 1..(Len(requestTimes) - 1) : requestTimes[i] <= requestTimes[i + 1]
  /\ Len(requestTimes) <= MAX_REQ

\* An admission that dropped one expired entry and filled the list again, its
\* oldest entry one millisecond from expiring
C21_Witness ==
  /\ lastAdmit = "true"
  /\ Len(admitLog) = MAX_REQ + 1
  /\ Len(requestTimes) = MAX_REQ
  /\ now - requestTimes[1] = WINDOW_MS - 1
  /\ requestTimes[MAX_REQ] = now

----------------------------------------------------------------------------
\* C22 as claimed: when the upstream fails after some sequence of chunks, the
\* response the session's adapter branch produces (events written, status
\* sent) is the one each of the three adapter branches would have produced
\* from the same point, on the SSE route and on the stream/silent route.
C22_BranchesAgree ==
  [][UpstreamError =>
       \A sh \in Adapted :
         res' = OnUpstreamError(file, IsSse, sh, res, buffer).res]_vars

----------------------------------------------------------------------------
\* C23 as claimed: the single-newline scan runs only at end-of-stream: when a
\* chunk arrives, only the double-newline loop takes text from the buffer, so
\* what stays buffered is what that loop left, and nothing is extracted from
\* text the double-newline loop did not consume.
C23_FallbackOnlyAtEnd ==
  [][\A c \in SessionChunks :
       Chunk(c) =>
         LET primary == ScanFrames(buffer \o c)
         IN /\ buffer' = primary.buf
            /\ IF IsSse THEN res' = ResWriteAll(res, "data", primary.frags)
               ELSE frags' = frags \o primary.frags]_vars

----------------------------------------------------------------------------
\* C24: whatever the chunking, the buffer is the unconsumed end of the text
\* received, and the fragments extracted are those of the lines of the
\* consumed part, each line contributing once: no line is handed to the
\* extractor by both loops or twice by one.
C24_EachLineExtractedOnce ==
  /\ Len(buffer) <= pos
  /\ buffer = SubSeq(text, pos - Len(buffer) + 1, pos)
  /\ frags = ProcessLines(SplitLines(SubSeq(text, 1, pos - Len(buffer))))

\* A frame taken by the double-newline loop in the first chunk, then a line
\* taken by the single-newline loop at end-of-stream
C24_Witness ==
  /\ eos
  /\ text = <<"JA", "NL", "NL", "JA">>
  /\ lastCut = 3
  /\ buffer = <<>>
  /\ frags = <<"a", "a">>

----------------------------------------------------------------------------
\* The events of the fragments vs, in order
DataEventsOf(vs) == [i \in 1..Len(vs) |-> Ev("data", vs[i])]

\* C25: when the upstream ends on an SSE session, what is still buffered is
\* the final line without its newline; if it has non-whitespace content its
\* fragments are written once, in order, then the done pair, then the close,
\* and nothing else; the buffer is empty afterwards. A whitespace-only
\* remainder is written nowhere.
C25_TailFlushedBeforeDone ==
  [][(UpstreamEnd /\ IsSse) =>
       LET tail == IF Trim(buffer) # <<>> THEN ProcessLine(buffer) ELSE <<>>
       IN /\ res'.out = res.out \o DataEventsOf(tail)
                           \o <<Ev("event", "done"), Ev("data", "[DONE]"), Ev("end", "")>>
          /\ Trim(buffer') = <<>>
          /\ Trim(buffer) # <<>> => buffer' = <<>>]_vars

\* One chunk holding a payload line without its newline, then the normal end
C25_Witness ==
  /\ SseRequest /\ term = "end" /\ nChunks = 1
  /\ text = <<"DATA", "JA">>
  /\ buffer = <<>>
  /\ res.out = <<Ev("data", "a"), Ev("event", "done"), Ev("data", "[DONE]"), Ev("end", "")>>

----------------------------------------------------------------------------
\* The terminal events written to a response: the first line of a done pair,
\* or an error frame
TerminalEvents(out) ==
  {i \in 1..Len(out) : out[i] = Ev("event", "done") \/ out[i].k = "error"}

\* C26 as claimed: an SSE session writes at most one terminal event, a done
\* pair or an error frame, never both and never one twice, whatever the body
\* shape and in whichever order the upstream's end and error signals come.
C26_AtMostOneTerminalEvent ==
  SseRequest => Cardinality(TerminalEvents(res.out)) <= 1

----------------------------------------------------------------------------
\* C27: a request served by gemini.js changes requestTimes as follows. A POST,
\* whatever its subpath and prompt, arriving while fewer than MAX_REQ entries
\* are within the window appends exactly one entry, the current instant; a
\* POST arriving at the limit appends none; OPTIONS, GET limit and any other
\* method append none (GET limit only drops expired entries).
C27_SlotAccounting ==
  [][file' = Gemini =>
       LET kept == Prune(requestTimes, now) IN
       IF route'.method = "POST"
       THEN requestTimes' = IF Len(kept) < MAX_REQ THEN Append(kept, now) ELSE kept
       ELSE requestTimes' \in {requestTimes, kept}]_vars

\* A POST on an unknown subpath took the last slot of the window and was
\* answered 404 without an upstream call
C27_Witness ==
  /\ file = Gemini /\ route.method = "POST"
  /\ res.sentStatus = 404 /\ upstreamCalls = 0
  /\ lastAdmit = "true"
  /\ Len(requestTimes) = MAX_REQ

----------------------------------------------------------------------------
\* How many calls of geminiRateLimiter in a row at instant t return true
\* before one returns false, starting from the list times; n counts the calls
\* made, and the run is cut after MAX_REQ + 1 admissions
RECURSIVE AdmitRun(_, _, _)
AdmitRun(times, t, n) ==
  LET a == RateLimiter(times, t) IN
  IF a.ok /\ n <= MAX_REQ THEN 1 + AdmitRun(a.times, t, n + 1) ELSE 0

\* C28: at the instant of a GET limit answer with remaining = k, exactly k
\* calls of geminiRateLimiter in a row at that instant return true and the
\* next one returns false; k is within 0..MAX_REQ and is 0 exactly when the
\* answer's limit is 1.
C28_RemainingIsAdmissible ==
  lastStatus # NoStatus =>
    /\ lastStatus.remaining \in 0..MAX_REQ
    /\ lastStatus.remaining = 0 <=> lastStatus.limit = 1
    /\ AdmitRun(requestTimes, now, 0) = lastStatus.remaining

\* A query that found seven of ten admissions expired: seven slots reported
C28_Witness ==
  /\ lastStatus # NoStatus
  /\ lastStatus.remaining = 7
  /\ Len(requestTimes) = 3
  /\ Len(admitLog) = MAX_REQ
  /\ AdmitRun(requestTimes, now, 0) = 7

====
